---- MODULE Spec2Model ----
(***************************************************************************)
(* Bot.py: an RSI alert bot that polls perpetual-swap candles from several *)
(* exchanges.  The model covers the module-level state (pin, cooldown,     *)
(* market-symbol cache, RSI state), find_perp_market_symbol,               *)
(* exchange_order_for, fetch_ohlcv_pinned, get_rsi and the loop of run().  *)
(*                                                                         *)
(* Time is in seconds.  The exchange API (ccxt), the RSI computation and   *)
(* Telegram are the environment: what they return is an input of the step  *)
(* that calls them.                                                        *)
(***************************************************************************)
EXTENDS Integers, Sequences, FiniteSets, TLC

VARIABLES
    env,                \* the configuration read at import (lines 11-32) and
                        \* what the exchanges can answer; never changes
    now,                \* time.time()
    pinned_exchange,    \* Bot.py:28, keyed by timeframe (SYMBOL is fixed)
    cooldown_until,     \* Bot.py:31
    last_state,         \* Bot.py:35, keyed by <<exchange, market_symbol, tf>>
    perp_symbol_cache,  \* Bot.py:38, keyed by exchange (SYMBOL is fixed)
    pc,                 \* where run() stands: "loop" (line 199), "try" (line
                        \* 145), "eval" (line 189), "sleep" (line 225)
    tf_i,               \* index into TIMEFRAMES of the for loop of run()
    order,              \* the list fetch_ohlcv_pinned iterates over
    tried,              \* Bot.py:143
    last_err,           \* Bot.py:142
    ret,                \* what fetch_ohlcv_pinned returned: [ex, market]; the
                        \* candles are read when get_rsi uses them
    sent,               \* the messages send() was called with in the last step
    printed,            \* the exception run() printed in the last step
    sample,             \* the evaluation run() made in the last step
    wakes,              \* number of time.sleep(CHECK_INTERVAL) calls so far
    faults,             \* number of exchange calls that raised so far
    slow,               \* number of exchange calls that took their time so far
    \* history variables, read by no action
    before,             \* the time, timeframe, pins, cooldowns, fault count
                        \* and candidate order when the fetch of the current
                        \* cycle began
    thrown,             \* the exchange and the exception of the last attempt
                        \* of the current fetch that raised
    resolver,           \* the call of find_perp_market_symbol made by the
                        \* attempt of the last step
    resolved,           \* per exchange, the market find_perp_market_symbol
                        \* returned last, None after line 177 popped it
    marked_at,          \* the time of the last cooldown mark of each exchange
                        \* that has one
    reported            \* per series key, the directions reported and not left

vars == <<env, now, pinned_exchange, cooldown_until, last_state, perp_symbol_cache,
          pc, tf_i, order, tried, last_err, ret, sent, printed, sample, wakes,
          faults, slow, before, thrown, resolver, resolved, marked_at, reported>>

-----------------------------------------------------------------------------
(* Configuration                                                           *)

\* Python's None where the other values are names, and where they are
\* records.
None == "None"
Nil == [none |-> TRUE]

RSI_LOW == 30
RSI_HIGH == 70
SYMBOL == "BTC/USDT"
CHECK_INTERVAL == 30
COOLDOWN_SECONDS == 120
EXCHANGES == <<"bybit", "kucoin", "okx">>

\* Line 17: read from the process environment.
TIMEFRAMES == env.timeframes

\* The run stops after this many sleeps.
MaxWakes == 2

\* At most this many calls of the exchange API raise in a run.
MaxFaults == 3

\* At most this many calls of the exchange API are slow in a run.
MaxSlow == 1

ExchangeSet == {EXCHANGES[i] : i \in 1..Len(EXCHANGES)}
TimeframeSet == {TIMEFRAMES[i] : i \in 1..Len(TIMEFRAMES)}

InSeq(x, s) == \E i \in 1..Len(s) : s[i] = x

-----------------------------------------------------------------------------
(* The environment's answers                                               *)

\* A call of the exchange API returns at once or, a slow one, after
\* CCXT_TIMEOUT_MS = 15000 milliseconds.
CCXT_TIMEOUT == 15
Delays == {0} \cup (IF slow < MaxSlow THEN env.delays ELSE {})

\* time.sleep(CHECK_INTERVAL) suspends for CHECK_INTERVAL seconds or, the
\* process being kept from running, for longer: here as long as a cooldown.
Pauses == {CHECK_INTERVAL} \cup env.oversleeps

\* An exception: its class and its text.  Of the text only the substrings
\* the code looks for matter; a message is the set of them it contains.
\* NetworkError stands for the classes of recoverable_types, ExchangeError
\* for every class that is neither one of them nor BadSymbol.
ErrTypes == {"NetworkError", "BadSymbol", "ExchangeError"}
Messages == { {}, {"403"}, {"symbol"}, {"market", "restricted"} }
Errors == [type : ErrTypes, msg : Messages]

\* f"Perp {base_symbol} não encontrado em {ex.id}"
NotFoundError == [type |-> "BadSymbol", msg |-> {}]

\* The values get_rsi can return for rsi.iloc[-2] and rsi.iloc[-1].
RsiValues == {RSI_LOW, 50, RSI_HIGH}

\* The same with the values next to the thresholds and a second value
\* between them.
RsiEdgeValues ==
    RsiValues \cup {RSI_LOW - 1, RSI_LOW + 1, 55, RSI_HIGH - 1, RSI_HIGH + 1}

\* Markets of a catalog, as ex.markets lists them.
Market(sym, swap, linear) ==
    [symbol |-> sym, base |-> "BTC", quote |-> "USDT", active |-> TRUE,
     swap |-> swap, linear |-> linear]

\* The catalogs load_markets() can bring: inverse and linear swaps, a spot
\* market only, nothing.
CatPerp == << Market("BTC/USDT:BTC", TRUE, FALSE), Market("BTC/USDT:USDT", TRUE, TRUE) >>
CatSpot == << Market("BTC/USDT", FALSE, FALSE) >>
CatNone == << >>
Catalogs == {CatPerp, CatSpot, CatNone}

\* A market of any quote currency, active or not.
MarketOf(sym, quote, active, swap, linear) ==
    [symbol |-> sym, base |-> "BTC", quote |-> quote, active |-> active,
     swap |-> swap, linear |-> linear]

\* More catalogs: two swaps none of them linear; a delisted linear swap
\* before an inverse one; a delisted linear swap, a linear swap of another
\* quote and the spot market; a swap of another quote only.
CatInverse ==
    << Market("BTC/USDT:BTC", TRUE, FALSE), Market("BTC/USDT:BTC-261225", TRUE, FALSE) >>
CatDelisted ==
    << MarketOf("BTC/USDT:USDT", "USDT", FALSE, TRUE, TRUE),
       Market("BTC/USDT:BTC", TRUE, FALSE) >>
CatFallback ==
    << MarketOf("BTC/USDT:USDT", "USDT", FALSE, TRUE, TRUE),
       MarketOf("BTC/USDC:USDC", "USDC", TRUE, TRUE, TRUE),
       Market("BTC/USDT", FALSE, FALSE) >>
CatOtherQuote == << MarketOf("BTC/USDC:USDC", "USDC", TRUE, TRUE, TRUE) >>
AllCatalogs == Catalogs \cup {CatInverse, CatDelisted, CatFallback, CatOtherQuote}

-----------------------------------------------------------------------------
(* Pure functions                                                          *)

IsInstance(e, types) == e.type \in types

is_recoverable(e) ==
    \/ IsInstance(e, {"NetworkError"})
    \/ "restricted" \in e.msg
    \/ "forbidden" \in e.msg
    \/ "403" \in e.msg

\* base_symbol.split("/")
SplitBase(base_symbol) ==
    IF base_symbol = "BTC/USDT" THEN <<"BTC", "USDT">> ELSE <<"", "">>

\* Lines 90-99 of find_perp_market_symbol.
PerpCandidates(markets, base_symbol) ==
    SelectSeq(markets, LAMBDA m :
        /\ m.active
        /\ m.base = SplitBase(base_symbol)[1]
        /\ m.quote = SplitBase(base_symbol)[2]
        /\ m.swap)

\* Lines 108-109 taking the first candidate whether linear or not.
ChoosePerpFirst(markets, base_symbol) ==
    LET candidates == PerpCandidates(markets, base_symbol)
    IN  IF candidates = << >>
        THEN IF \E i \in 1..Len(markets) : markets[i].symbol = base_symbol
             THEN base_symbol
             ELSE None
        ELSE candidates[1].symbol

\* Lines 101-109 of find_perp_market_symbol on a loaded catalog: the symbol
\* chosen, or None where the code raises BadSymbol.
ChoosePerp(markets, base_symbol) ==
    LET candidates == PerpCandidates(markets, base_symbol)
        linear == SelectSeq(candidates, LAMBDA m : m.linear)
    IN  IF candidates = << >>
        THEN IF \E i \in 1..Len(markets) : markets[i].symbol = base_symbol
             THEN base_symbol
             ELSE None
        ELSE IF linear # << >> THEN linear[1].symbol ELSE candidates[1].symbol

\* exchange_order_for with line 133 keeping a source only after its expiry.
exchange_order_for_strict(tf, t) ==
    LET pin == pinned_exchange[tf]
        first == IF InSeq(pin, EXCHANGES) THEN <<pin>> ELSE << >>
        all == first \o SelectSeq(EXCHANGES, LAMBDA ex : ~InSeq(ex, first))
    IN  SelectSeq(all, LAMBDA ex : t > cooldown_until[ex])

\* exchange_order_for without the test of line 129: the pinned exchange is
\* listed again at its place in EXCHANGES.
exchange_order_for_twice(tf, t) ==
    LET pin == pinned_exchange[tf]
        first == IF InSeq(pin, EXCHANGES) THEN <<pin>> ELSE << >>
        all == first \o EXCHANGES
    IN  SelectSeq(all, LAMBDA ex : t >= cooldown_until[ex])

\* exchange_order_for without lines 125-126: the priority of EXCHANGES
\* whatever the pin.
exchange_order_for_priority(tf, t) ==
    SelectSeq(EXCHANGES, LAMBDA ex : t >= cooldown_until[ex])

\* exchange_order_for with line 133 applied to the exchanges after the pin
\* only: the pinned exchange is a candidate even while in cooldown.
exchange_order_for_pin_exempt(tf, t) ==
    LET pin == pinned_exchange[tf]
        first == IF InSeq(pin, EXCHANGES) THEN <<pin>> ELSE << >>
    IN  first \o SelectSeq(EXCHANGES,
                           LAMBDA ex : ~InSeq(ex, first) /\ t >= cooldown_until[ex])

\* exchange_order_for(SYMBOL, tf) called at time t.
exchange_order_for(tf, t) ==
    LET pin == pinned_exchange[tf]
        first == IF InSeq(pin, EXCHANGES) THEN <<pin>> ELSE << >>
        all == first \o SelectSeq(EXCHANGES, LAMBDA ex : ~InSeq(ex, first))
    IN  SelectSeq(all, LAMBDA ex : t >= cooldown_until[ex])

\* Line 202 with a key that leaves the exchange out.
SeriesKeyNoSource(ex_name, market_symbol, tf) == <<"", market_symbol, tf>>

\* Line 202.
SeriesKey(ex_name, market_symbol, tf) == <<ex_name, market_symbol, tf>>

\* Line 214 with a current value that has to pass RSI_HIGH.
CrossedAboveStrict(prev_rsi, curr_rsi) == prev_rsi < RSI_HIGH /\ curr_rsi > RSI_HIGH

\* Lines 208 and 214.
CrossedBelow(prev_rsi, curr_rsi) == prev_rsi > RSI_LOW /\ curr_rsi <= RSI_LOW
CrossedAbove(prev_rsi, curr_rsi) == prev_rsi < RSI_HIGH /\ curr_rsi >= RSI_HIGH

-----------------------------------------------------------------------------
\* The state after import, in the environment e.
Boot(e) ==
    /\ env = e
    /\ now = 0
    /\ pinned_exchange = [tf \in TimeframeSet |-> None]
    /\ cooldown_until = [ex \in ExchangeSet |-> 0]
    /\ last_state = << >>
    /\ perp_symbol_cache = [ex \in ExchangeSet |-> None]
    /\ pc = "loop"
    /\ tf_i = 1
    /\ order = << >>
    /\ tried = << >>
    /\ last_err = Nil
    /\ ret = Nil
    /\ sent = << >>
    /\ printed = Nil
    /\ sample = Nil
    /\ wakes = 0
    /\ faults = 0
    /\ slow = 0
    /\ before = Nil
    /\ thrown = Nil
    /\ resolver = Nil
    /\ resolved = [ex \in ExchangeSet |-> None]
    /\ marked_at = << >>
    /\ reported = {}

-----------------------------------------------------------------------------
(* fetch_ohlcv_pinned                                                      *)

CurrentTf == TIMEFRAMES[tf_i]

\* Python truthiness of pinned_exchange.get(...): None is false, an exchange
\* name is true.
Truthy(x) == x # None

\* Lines 199-201, 188, 142-145: the next timeframe's get_rsi calls
\* fetch_ohlcv_pinned, which sets its locals and computes the list its for
\* loop iterates over.
FetchStart ==
    /\ pc = "loop"
    /\ order' = exchange_order_for(CurrentTf, now)
    /\ tried' = << >>
    /\ last_err' = Nil
    /\ ret' = Nil
    /\ pc' = "try"
    /\ sent' = << >>
    /\ printed' = Nil
    /\ sample' = Nil
    /\ before' = [tf |-> CurrentTf, pinned |-> pinned_exchange,
                  cooldown |-> cooldown_until, faults |-> faults,
                  now |-> now, order |-> exchange_order_for(CurrentTf, now)]
    /\ thrown' = Nil
    /\ resolver' = Nil
    /\ UNCHANGED <<env, now, pinned_exchange, cooldown_until, last_state,
                   perp_symbol_cache, tf_i, wakes, faults, slow, resolved,
                   marked_at, reported>>

\* The for loop attempting the head of the list again after a failure.
ExNameAgain == order[1]

\* The candidate of the current iteration of the for loop.
ExName == order[Len(tried) + 1]

\* Line 155 pinning the head of the list instead of the exchange that
\* answered.
PinFirstCandidate(ex_name, tf) == [pinned_exchange EXCEPT ![tf] = order[1]]

\* Line 155 keyed by the symbol alone: one pin for every timeframe.
PinEveryTimeframe(ex_name, tf) == [t \in DOMAIN pinned_exchange |-> ex_name]

\* Line 155.
PinAfterSuccess(ex_name, tf) == [pinned_exchange EXCEPT ![tf] = ex_name]

\* Line 158 without the test that a pin existed.
FailoverMessagesAlways(prev_pin, ex_name, tf) ==
    IF prev_pin # ex_name
    THEN << [kind |-> "failover", tf |-> tf, old |-> prev_pin, new |-> ex_name] >>
    ELSE << >>

\* Lines 154, 158-159.
FailoverMessages(prev_pin, ex_name, tf) ==
    IF Truthy(prev_pin) /\ prev_pin # ex_name
    THEN << [kind |-> "failover", tf |-> tf, old |-> prev_pin, new |-> ex_name] >>
    ELSE << >>

\* Line 168 reading the clock before the try block instead of after it.
CooldownAfterFromStart(e, ex_name, t) ==
    IF is_recoverable(e)
    THEN [cooldown_until EXCEPT ![ex_name] = now + COOLDOWN_SECONDS]
    ELSE cooldown_until

\* Lines 167-168, at time t.
CooldownAfter(e, ex_name, t) ==
    IF is_recoverable(e)
    THEN [cooldown_until EXCEPT ![ex_name] = t + COOLDOWN_SECONDS]
    ELSE cooldown_until

\* Lines 171-177 applied to the cache as the try block left it.
CacheAfter(e, ex_name, cache) ==
    IF IsInstance(e, {"BadSymbol"})
    THEN cache
    ELSE IF "symbol" \in e.msg \/ "market" \in e.msg
         THEN [cache EXCEPT ![ex_name] = None]
         ELSE cache

\* Lines 171-176: the except block reaches the pop of line 177.
Evicts(e) ==
    /\ ~IsInstance(e, {"BadSymbol"})
    /\ ("symbol" \in e.msg \/ "market" \in e.msg)

\* A call of find_perp_market_symbol: whether it called load_markets,
\* whether load_markets returned and what it listed, and the symbol the
\* call returned (None where it raised).
\* Lines 84-86: the cache holds the market.
CacheHit(ex_name) ==
    [ex |-> ex_name, loaded |-> FALSE, listed |-> FALSE, markets |-> << >>,
     symbol |-> perp_symbol_cache[ex_name]]

\* Lines 88-112: load_markets lists markets.
Discovery(ex_name, markets) ==
    [ex |-> ex_name, loaded |-> TRUE, listed |-> TRUE, markets |-> markets,
     symbol |-> ChoosePerp(markets, SYMBOL)]

\* Line 88: load_markets raises.
LoadRaised(ex_name) ==
    [ex |-> ex_name, loaded |-> TRUE, listed |-> FALSE, markets |-> << >>,
     symbol |-> None]

\* Lines 104 and 111 storing nothing.
CacheStoreNothing(ex_name, chosen) == perp_symbol_cache

\* Lines 104 and 111.
CacheStore(ex_name, chosen) == [perp_symbol_cache EXCEPT ![ex_name] = chosen]

\* Lines 146-161: find_perp_market_symbol, called as call says, returns
\* call.symbol leaving the cache as cache; fetch_ohlcv returns candles after
\* d seconds.
Succeed(call, cache, d) ==
    /\ tried' = Append(tried, ExName)
    /\ perp_symbol_cache' = cache
    /\ pinned_exchange' = PinAfterSuccess(ExName, CurrentTf)
    /\ sent' = FailoverMessages(pinned_exchange[CurrentTf], ExName, CurrentTf)
    /\ ret' = [ex |-> ExName, market |-> call.symbol]
    /\ now' = now + d
    /\ slow' = IF d > 0 THEN slow + 1 ELSE slow
    /\ pc' = "eval"
    /\ printed' = Nil
    /\ sample' = Nil
    /\ resolver' = call
    /\ resolved' = [resolved EXCEPT ![ExName] = call.symbol]
    /\ UNCHANGED <<env, cooldown_until, last_state, tf_i, order, last_err, wakes,
                   faults, before, thrown, marked_at, reported>>

\* Lines 146-151, 163-179 but for the pin: the try block raises e after d
\* seconds, find_perp_market_symbol having been called as call says and
\* having left the cache as cache.
FailEffects(e, call, cache, d) ==
    /\ faults < MaxFaults
    /\ faults' = faults + 1
    /\ slow' = IF d > 0 THEN slow + 1 ELSE slow
    /\ tried' = Append(tried, ExName)
    /\ last_err' = e
    /\ now' = now + d
    /\ cooldown_until' = CooldownAfter(e, ExName, now + d)
    /\ marked_at' = IF is_recoverable(e)
                    THEN (ExName :> (now + d)) @@ marked_at
                    ELSE marked_at
    /\ perp_symbol_cache' = CacheAfter(e, ExName, cache)
    /\ pc' = "try"
    /\ sent' = << >>
    /\ printed' = Nil
    /\ sample' = Nil
    /\ thrown' = [ex |-> ExName, err |-> e]
    /\ resolver' = call
    /\ resolved' = IF Evicts(e)
                   THEN [resolved EXCEPT ![ExName] = None]
                   ELSE IF call.symbol # None
                        THEN [resolved EXCEPT ![ExName] = call.symbol]
                        ELSE resolved
    /\ UNCHANGED <<env, last_state, tf_i, order, ret, wakes, before, reported>>

\* Line 155 moved above the call of line 151: a failed attempt pins too.
FailPinning(e, call, cache, d) ==
    /\ FailEffects(e, call, cache, d)
    /\ pinned_exchange' = [pinned_exchange EXCEPT ![CurrentTf] = ExName]

\* Lines 146-151, 163-179: the except block assigns no pin.
Fail(e, call, cache, d) ==
    /\ FailEffects(e, call, cache, d)
    /\ pinned_exchange' = pinned_exchange

Attempting == pc = "try" /\ Len(tried) < Len(order)

\* Lines 84-85.
Cached == perp_symbol_cache[ExName] # None

\* Lines 84-86 hit the cache, fetch_ohlcv returns.
AttemptCachedOk ==
    /\ Attempting /\ Cached
    /\ \E d \in Delays : Succeed(CacheHit(ExName), perp_symbol_cache, d)

\* Lines 88-112 discover the market, fetch_ohlcv returns.
AttemptDiscoverOk ==
    /\ Attempting /\ ~Cached
    /\ \E markets \in env.catalogs, d \in Delays :
          LET call == Discovery(ExName, markets)
          IN  /\ call.symbol # None
              /\ Succeed(call, CacheStore(ExName, call.symbol), d)

\* Line 88: load_markets() raises.
AttemptLoadFails ==
    /\ Attempting /\ ~Cached
    /\ \E e \in env.errors, d \in Delays :
          Fail(e, LoadRaised(ExName), perp_symbol_cache, d)

\* Line 106: no perp market and no such symbol.
AttemptNotFound ==
    /\ Attempting /\ ~Cached
    /\ \E markets \in env.catalogs, d \in Delays :
          LET call == Discovery(ExName, markets)
          IN  /\ call.symbol = None
              /\ Fail(NotFoundError, call, perp_symbol_cache, d)

\* Line 151: fetch_ohlcv raises, the market coming from the cache.
AttemptCachedFetchFails ==
    /\ Attempting /\ Cached
    /\ \E e \in env.errors, d \in Delays :
          Fail(e, CacheHit(ExName), perp_symbol_cache, d)

\* Line 151: fetch_ohlcv raises, the market just discovered and cached.
AttemptDiscoverFetchFails ==
    /\ Attempting /\ ~Cached
    /\ \E markets \in env.catalogs, e \in env.errors, d \in Delays :
          LET call == Discovery(ExName, markets)
          IN  /\ call.symbol # None
              /\ Fail(e, call, CacheStore(ExName, call.symbol), d)

-----------------------------------------------------------------------------
(* run                                                                     *)

\* The for loop of line 199 moves on; after the last timeframe, line 225.
\* The locals of the fetch that ended are gone.
Advance ==
    /\ IF tf_i < Len(TIMEFRAMES)
       THEN tf_i' = tf_i + 1 /\ pc' = "loop"
       ELSE tf_i' = 1 /\ pc' = "sleep"
    /\ order' = << >>
    /\ tried' = << >>
    /\ last_err' = Nil

\* Lines 181-184 raise and nothing catches: run() ends.
ExhaustedUncaught ==
    /\ pc = "try" /\ Len(tried) = Len(order)
    /\ printed' = [type |-> "RuntimeError", tried |-> tried, last_err |-> last_err]
    /\ pc' = "exit"
    /\ UNCHANGED <<env, now, pinned_exchange, cooldown_until, last_state,
                   perp_symbol_cache, tf_i, order, tried, last_err, ret, sent,
                   sample, wakes, faults, slow, before, thrown, resolver,
                   resolved, marked_at, reported>>

\* Lines 181-184 raise, lines 222-223 catch and print.
Exhausted ==
    /\ pc = "try" /\ Len(tried) = Len(order)
    /\ printed' = [type |-> "RuntimeError", tried |-> tried, last_err |-> last_err]
    /\ Advance
    /\ sent' = << >>
    /\ sample' = Nil
    /\ resolver' = Nil
    /\ UNCHANGED <<env, now, pinned_exchange, cooldown_until, last_state,
                   perp_symbol_cache, ret, wakes, faults, slow, before, thrown,
                   resolved, marked_at, reported>>

\* Lines 189-191 raise and lines 222-223 catch and print, but for the pin
\* and the cooldowns.
GetRsiRaises ==
    /\ pc = "eval"
    /\ printed' = [type |-> "IndexError"]
    /\ Advance
    /\ sent' = << >>
    /\ sample' = Nil
    /\ resolver' = Nil
    /\ UNCHANGED <<env, now, last_state, perp_symbol_cache, ret, wakes, faults,
                   slow, before, thrown, resolved, reported>>

\* Too few candles handled as a failure of the exchange that answered.
EvaluateRaisesCooling ==
    /\ GetRsiRaises
    /\ cooldown_until' = [cooldown_until EXCEPT ![ret.ex] = now + COOLDOWN_SECONDS]
    /\ UNCHANGED <<pinned_exchange, marked_at>>

\* Lines 189-191 raise on too few candles (rsi.iloc[-2] of a series of
\* fewer than two values), lines 222-223 catch and print.
EvaluateRaises ==
    /\ GetRsiRaises
    /\ UNCHANGED <<pinned_exchange, cooldown_until, marked_at>>

\* Lines 208-218: the messages of one evaluation.
CrossMessages(ex_name, market_symbol, tf, prev_rsi, curr_rsi) ==
    (IF CrossedBelow(prev_rsi, curr_rsi)
     THEN << [kind |-> "below", market |-> market_symbol, tf |-> tf,
              rsi |-> curr_rsi, ex |-> ex_name] >>
     ELSE << >>)
    \o
    (IF CrossedAbove(prev_rsi, curr_rsi)
     THEN << [kind |-> "above", market |-> market_symbol, tf |-> tf,
              rsi |-> curr_rsi, ex |-> ex_name] >>
     ELSE << >>)

\* Line 204 never taking the branch.
FirstObservationNever(key) == FALSE

\* Line 204.
FirstObservation(key) == key \notin DOMAIN last_state

Kinds(msgs) == {msgs[i].kind : i \in 1..Len(msgs)}

\* The directions reported for a key whose value has not come back since:
\* below RSI_HIGH after "above", above RSI_LOW after "below".
ReportedAfter(key, curr_rsi, msgs) ==
    (reported \ ( (IF curr_rsi < RSI_HIGH THEN {<<key, "above">>} ELSE {})
                  \cup (IF curr_rsi > RSI_LOW THEN {<<key, "below">>} ELSE {}) ))
    \cup {<<key, k>> : k \in Kinds(msgs)}

\* Lines 201-220 with get_rsi returning prev_rsi and curr_rsi.
Evaluate ==
    /\ pc = "eval"
    /\ \E prev_rsi \in env.values, curr_rsi \in env.values :
          LET key == SeriesKey(ret.ex, ret.market, CurrentTf)
              msgs == IF FirstObservation(key)
                      THEN << >>
                      ELSE CrossMessages(ret.ex, ret.market, CurrentTf, prev_rsi, curr_rsi)
          IN  /\ sent' = msgs
              /\ last_state' = (key :> curr_rsi) @@ last_state
              /\ sample' = [ex |-> ret.ex, market |-> ret.market, tf |-> CurrentTf,
                            prev |-> prev_rsi, curr |-> curr_rsi,
                            fresh |-> <<ret.ex, ret.market, CurrentTf>> \notin DOMAIN last_state,
                            reported |-> {k \in {"above", "below"} :
                                            <<<<ret.ex, ret.market, CurrentTf>>, k>> \in reported}]
              /\ reported' = ReportedAfter(<<ret.ex, ret.market, CurrentTf>>, curr_rsi, msgs)
    /\ Advance
    /\ printed' = Nil
    /\ resolver' = Nil
    /\ UNCHANGED <<env, now, pinned_exchange, cooldown_until, perp_symbol_cache,
                   ret, wakes, faults, slow, before, thrown, resolved, marked_at>>

\* Line 225.
Sleep ==
    /\ pc = "sleep"
    /\ wakes < MaxWakes
    /\ \E pause \in Pauses : now' = now + pause
    /\ wakes' = wakes + 1
    /\ pc' = "loop"
    /\ ret' = Nil
    /\ sent' = << >>
    /\ printed' = Nil
    /\ sample' = Nil
    /\ before' = Nil
    /\ thrown' = Nil
    /\ resolver' = Nil
    /\ UNCHANGED <<env, pinned_exchange, cooldown_until, last_state, perp_symbol_cache,
                   tf_i, order, tried, last_err, faults, slow, resolved, marked_at,
                   reported>>

Next ==
    \/ FetchStart
    \/ AttemptCachedOk
    \/ AttemptDiscoverOk
    \/ AttemptLoadFails
    \/ AttemptNotFound
    \/ AttemptCachedFetchFails
    \/ AttemptDiscoverFetchFails
    \/ Exhausted
    \/ EvaluateRaises
    \/ Evaluate
    \/ Sleep

\* The program with the default timeframes and everything the exchanges
\* can answer.
FullEnv ==
    [timeframes |-> <<"5m", "15m", "1h">>, errors |-> Errors,
     catalogs |-> Catalogs, values |-> RsiValues,
     delays |-> {CCXT_TIMEOUT}, oversleeps |-> {COOLDOWN_SECONDS}]

Init == Boot(FullEnv)

Spec == Init /\ [][Next]_vars

\* The state space of Spec is too large to enumerate.  Each specification
\* below runs the same program in an environment that varies some of what
\* Spec varies and fixes the rest.

PlainErrors ==
    {[type |-> "NetworkError", msg |-> {}], [type |-> "ExchangeError", msg |-> {}]}

\* Every exception, on one timeframe, with calls that take no time: what an
\* exception does to the cooldowns, the cache and the pin.
FetchEnv ==
    [timeframes |-> <<"5m">>, errors |-> Errors,
     catalogs |-> {CatPerp, CatNone}, values |-> {50},
     delays |-> {}, oversleeps |-> {COOLDOWN_SECONDS}]

InitFetch == Boot(FetchEnv)

SpecFetch == InitFetch /\ [][Next]_vars

\* Slow calls and long sleeps, on one timeframe, with plain exceptions: the
\* cooldowns against the clock.
ClockEnv ==
    [timeframes |-> <<"5m">>, errors |-> PlainErrors,
     catalogs |-> {CatPerp, CatNone}, values |-> {50},
     delays |-> {CCXT_TIMEOUT}, oversleeps |-> {COOLDOWN_SECONDS}]

InitClock == Boot(ClockEnv)

SpecClock == InitClock /\ [][Next]_vars

\* Two timeframes, with plain exceptions and calls that take no time: the
\* pins of the timeframes and the cooldowns they share.
PinsEnv ==
    [timeframes |-> <<"5m", "15m">>, errors |-> PlainErrors,
     catalogs |-> {CatPerp, CatNone}, values |-> {50},
     delays |-> {}, oversleeps |-> {COOLDOWN_SECONDS}]

InitPins == Boot(PinsEnv)

SpecPins == InitPins /\ [][Next]_vars

\* Every RSI value and every catalog, on one timeframe, with plain
\* exceptions and calls that take no time: the RSI state.
CrossEnv ==
    [timeframes |-> <<"5m">>, errors |-> PlainErrors,
     catalogs |-> Catalogs, values |-> RsiValues,
     delays |-> {}, oversleeps |-> {}]

InitCross == Boot(CrossEnv)

SpecCross == InitCross /\ [][Next]_vars

\* The RSI values around the thresholds, on one timeframe and one catalog,
\* with one plain exception and calls that take no time: the crossing tests.
RsiEnv ==
    [timeframes |-> <<"5m">>, errors |-> {[type |-> "NetworkError", msg |-> {}]},
     catalogs |-> {CatPerp, CatNone}, values |-> RsiEdgeValues,
     delays |-> {}, oversleeps |-> {}]

InitRsi == Boot(RsiEnv)

SpecRsi == InitRsi /\ [][Next]_vars

\* Exceptions recoverable by class, by text and not at all, on one
\* timeframe, with slow calls and long sleeps: the cooldown a failure sets.
CoolEnv ==
    [timeframes |-> <<"5m">>,
     errors |-> PlainErrors \cup {[type |-> "ExchangeError", msg |-> {"403"}],
                                  [type |-> "BadSymbol", msg |-> {"market", "restricted"}]},
     catalogs |-> {CatPerp, CatNone}, values |-> {50},
     delays |-> {CCXT_TIMEOUT}, oversleeps |-> {COOLDOWN_SECONDS}]

InitCool == Boot(CoolEnv)

SpecCool == InitCool /\ [][Next]_vars

\* The three default timeframes, with one exception, which sets no
\* cooldown, one RSI value and calls that take no time: the loop of run().
\* run() is the only thread, every call it makes returns or raises within
\* its timeout and time.sleep returns, so a step that can be taken is taken.
LoopEnv ==
    [timeframes |-> <<"5m", "15m", "1h">>,
     errors |-> {[type |-> "ExchangeError", msg |-> {}]},
     catalogs |-> {CatPerp, CatNone}, values |-> {50},
     delays |-> {}, oversleeps |-> {}]

InitLoop == Boot(LoopEnv)

SpecLoop == InitLoop /\ [][Next]_vars /\ WF_vars(Next)

\* Every catalog, on one timeframe, with one exception and one RSI value
\* and calls that take no time: the market find_perp_market_symbol chooses.
ResolveEnv ==
    [timeframes |-> <<"5m">>, errors |-> {[type |-> "NetworkError", msg |-> {}]},
     catalogs |-> AllCatalogs, values |-> {50},
     delays |-> {}, oversleeps |-> {}]

InitResolve == Boot(ResolveEnv)

SpecResolve == InitResolve /\ [][Next]_vars

-----------------------------------------------------------------------------
(* Properties                                                              *)

\* The fetch of the current cycle has returned to get_rsi.
FetchReturned ==
    \/ pc = "eval"
    \/ sample # Nil
    \/ (printed # Nil /\ printed.type = "IndexError")

\* The exchange attempted last.
LastTried == tried[Len(tried)]

\* An attempt has just failed.
JustFailed == pc = "try" /\ tried # << >>

\* C1: when fetch_ohlcv_pinned returns, the exchanges attempted are the
\* candidate order up to the exchange returned, every one before it has
\* raised, and the pin of the timeframe is the exchange returned.
C1_FirstSuccessWins ==
    pc = "eval" =>
        /\ tried # << >>
        /\ Len(tried) <= Len(order)
        /\ tried = SubSeq(order, 1, Len(tried))
        /\ ret.ex = LastTried
        /\ faults - before.faults = Len(tried) - 1
        /\ pinned_exchange[before.tf] = ret.ex

\* Two candidates raise and the third answers.
C1_Witness ==
    pc = "eval" /\ Len(tried) = 3 /\ ret.ex = "okx" /\ pinned_exchange["5m"] = "okx"

\* C2: after an attempt fails with an exception that says the symbol or
\* the market is invalid (a BadSymbol, or a text with "symbol" or "market"),
\* the cache holds no market for that exchange.
C2_InvalidMarketEvicts ==
    ( /\ JustFailed
      /\ \/ last_err.type = "BadSymbol"
         \/ "symbol" \in last_err.msg
         \/ "market" \in last_err.msg )
    => perp_symbol_cache[LastTried] = None

\* C3: in the candidate order computed at time now, an exchange marked at
\* time T is absent when now < T + COOLDOWN_SECONDS and present when
\* now >= T + COOLDOWN_SECONDS.
C3_CooldownWindow ==
    (pc = "try" /\ tried = << >>) =>
        \A ex \in ExchangeSet :
            ex \in DOMAIN marked_at =>
                (InSeq(ex, order) <=> now >= marked_at[ex] + COOLDOWN_SECONDS)

\* An exchange marked during a slow call is back in the order at the very
\* second its cooldown ends.
C3_Witness ==
    /\ pc = "try" /\ tried = << >>
    /\ \E ex \in ExchangeSet :
          /\ ex \in DOMAIN marked_at
          /\ marked_at[ex] > 0
          /\ now = marked_at[ex] + COOLDOWN_SECONDS
          /\ InSeq(ex, order)

\* C4: an evaluation emits no event in a direction that was reported for
\* its key and that the value has not left since (current < RSI_HIGH after
\* "above", current > RSI_LOW after "below").
C4_NoRefire ==
    sample # Nil => Kinds(sent) \cap sample.reported = {}

\* C5: an attempt that fails with a BadSymbol leaves the cooldown of its
\* exchange as it was, whatever the text of the exception.
C5_BadSymbolNoCooldown ==
    (JustFailed /\ last_err.type = "BadSymbol")
    => cooldown_until[LastTried] = before.cooldown[LastTried]

\* The cycle's fetch was answered by another exchange than the one pinned
\* for the timeframe when it began.
FailedOver ==
    /\ before # Nil
    /\ before.pinned[before.tf] # None
    /\ ret # Nil
    /\ before.pinned[before.tf] # ret.ex

\* C6 as stated: the evaluation that follows a failover emits nothing.
C6_SilentAfterFailover ==
    (sample # Nil /\ FailedOver) => sent = << >>

\* C6, amended: the evaluation that follows a failover emits nothing when
\* last_state has no value for the key of the exchange that answered; when
\* it has one (the exchange answered this market and timeframe before), it
\* emits what lines 208-218 give for the pair of the cycle.
C6_FreshKeyAfterFailover ==
    (sample # Nil /\ FailedOver) =>
        sent = IF sample.fresh
               THEN << >>
               ELSE CrossMessages(sample.ex, sample.market, sample.tf,
                                  sample.prev, sample.curr)

\* A failover to an exchange never evaluated, with a pair that crosses.
C6_Witness ==
    /\ sample # Nil /\ FailedOver
    /\ sample.fresh
    /\ CrossedAbove(sample.prev, sample.curr)

\* C7: the fetch that returns has sent one failover message, naming the old
\* and the new exchange, if a pin existed for the timeframe and named
\* another exchange, and nothing otherwise.
C7_FailoverNotice ==
    pc = "eval" =>
        sent = IF before.pinned[before.tf] # None /\ before.pinned[before.tf] # ret.ex
               THEN << [kind |-> "failover", tf |-> before.tf,
                        old |-> before.pinned[before.tf], new |-> ret.ex] >>
               ELSE << >>

\* kucoin was pinned, fails, and okx answers.
C7_Witness ==
    /\ pc = "eval"
    /\ sent = << [kind |-> "failover", tf |-> "5m", old |-> "kucoin", new |-> "okx"] >>
    /\ pinned_exchange["5m"] = "okx"

\* C8: until the fetch of a cycle returns, and after it has raised, every
\* pin is what it was when the fetch began.
C8_ExhaustedKeepsPins ==
    before # Nil => (FetchReturned \/ pinned_exchange = before.pinned)

\* Every exchange is in cooldown, a pin exists, and the fetch raises without
\* an attempt.
C8_Witness ==
    /\ printed # Nil
    /\ printed.type = "RuntimeError"
    /\ printed.tried = << >>
    /\ \E tf \in TimeframeSet : pinned_exchange[tf] # None

\* A cycle has just ended on too few candles.
InsufficientData == printed # Nil /\ printed.type = "IndexError"

\* C9 as stated: a cycle that ends on too few candles leaves every cooldown
\* and the pin of its timeframe as they were when it began.
C9_CycleChangesNothing ==
    InsufficientData =>
        /\ cooldown_until = before.cooldown
        /\ pinned_exchange[before.tf] = before.pinned[before.tf]

\* C9, amended: a cycle that ends on too few candles leaves the pin of its
\* timeframe on the exchange that answered and the other pins as they were,
\* leaves the cooldown of the exchange that answered as it was, and changes
\* a cooldown only where an attempt of its fetch marked one.
C9_InsufficientDataFrame ==
    InsufficientData =>
        /\ pinned_exchange = [before.pinned EXCEPT ![before.tf] = ret.ex]
        /\ cooldown_until[ret.ex] = before.cooldown[ret.ex]
        /\ \A ex \in ExchangeSet :
              cooldown_until[ex] # before.cooldown[ex] =>
                  /\ ex \in DOMAIN marked_at
                  /\ cooldown_until[ex] = marked_at[ex] + COOLDOWN_SECONDS

\* The pinned exchange fails into cooldown, another answers with too few
\* candles.
C9_Witness ==
    /\ InsufficientData
    /\ FailedOver
    /\ cooldown_until # before.cooldown

\* C10: an evaluation whose key has no value in last_state emits nothing
\* and stores the current value.
C10_FirstObservationSilent ==
    (sample # Nil /\ sample.fresh) =>
        /\ sent = << >>
        /\ <<sample.ex, sample.market, sample.tf>> \in DOMAIN last_state
        /\ last_state[<<sample.ex, sample.market, sample.tf>>] = sample.curr

\* A first evaluation whose pair crosses RSI_HIGH.
C10_Witness ==
    /\ sample # Nil
    /\ sample.fresh
    /\ CrossedAbove(sample.prev, sample.curr)
    /\ sent = << >>

\* C11: an evaluation whose key has a value in last_state sends one "above"
\* message if previous < RSI_HIGH and current >= RSI_HIGH and none otherwise,
\* one "below" message if previous > RSI_LOW and current <= RSI_LOW and none
\* otherwise, and nothing else; each message carries the market, the
\* timeframe, the exchange and the current value.
C11_CrossEvents ==
    (sample # Nil /\ ~sample.fresh) =>
        LET up == sample.prev < RSI_HIGH /\ sample.curr >= RSI_HIGH
            down == sample.prev > RSI_LOW /\ sample.curr <= RSI_LOW
            count(k) == Cardinality({i \in 1..Len(sent) : sent[i].kind = k})
        IN  /\ count("above") = IF up THEN 1 ELSE 0
            /\ count("below") = IF down THEN 1 ELSE 0
            /\ Len(sent) = count("above") + count("below")
            /\ \A i \in 1..Len(sent) :
                  /\ sent[i].ex = sample.ex
                  /\ sent[i].market = sample.market
                  /\ sent[i].tf = sample.tf
                  /\ sent[i].rsi = sample.curr

\* The pair (69, 71) on a key that has a value: one "above" message.
C11_Witness ==
    /\ sample # Nil /\ ~sample.fresh
    /\ sample.prev = RSI_HIGH - 1 /\ sample.curr = RSI_HIGH + 1
    /\ Len(sent) = 1 /\ sent[1].kind = "above"

\* An exception of a recoverable class, or one whose text says the access
\* is restricted or forbidden.
Transient(e) ==
    \/ e.type = "NetworkError"
    \/ e.msg \cap {"restricted", "forbidden", "403"} # {}

\* C12: after an attempt fails with a recoverable exception, the
\* cooldown-expiry of the exchange attempted is the time of the failure plus
\* COOLDOWN_SECONDS, and the fetch is still in its loop over the candidate
\* order computed when it began, past the exchanges attempted so far.
C12_RecoverableCoolsAndContinues ==
    (JustFailed /\ Transient(thrown.err)) =>
        /\ thrown.ex = LastTried
        /\ cooldown_until[LastTried] = now + COOLDOWN_SECONDS
        /\ order = before.order
        /\ tried = SubSeq(before.order, 1, Len(tried))
        /\ ret = Nil

\* A slow call ends on a "403" of no recoverable class, and a candidate is
\* left to attempt.
C12_Witness ==
    /\ JustFailed
    /\ thrown.err = [type |-> "ExchangeError", msg |-> {"403"}]
    /\ now = before.now + CCXT_TIMEOUT
    /\ cooldown_until[LastTried] = now + COOLDOWN_SECONDS
    /\ Len(tried) < Len(order)

\* The place of an exchange in the fixed priority.
Rank(ex) == CHOOSE i \in 1..Len(EXCHANGES) : EXCHANGES[i] = ex

\* C13: the candidate order computed at time now for a timeframe lists,
\* once each, exactly the exchanges whose cooldown-expiry is not greater than
\* now; the exchange pinned for the timeframe, if listed, is first; the
\* others follow in the priority of EXCHANGES.
C13_CandidateOrder ==
    before # Nil =>
        LET o == before.order
            pin == before.pinned[before.tf]
        IN  /\ {o[i] : i \in 1..Len(o)}
                 = {ex \in ExchangeSet : ~(before.cooldown[ex] > before.now)}
            /\ \A i, j \in 1..Len(o) : i # j => o[i] # o[j]
            /\ InSeq(pin, o) => o[1] = pin
            /\ \A i, j \in 1..Len(o) :
                  (i < j /\ o[i] # pin /\ o[j] # pin) => Rank(o[i]) < Rank(o[j])

\* The last exchange of the priority is pinned and the first is in
\* cooldown.
C13_Witness ==
    /\ before # Nil
    /\ before.pinned[before.tf] = "okx"
    /\ before.cooldown["bybit"] > before.now
    /\ before.order = <<"okx", "kucoin">>

\* C14: when find_perp_market_symbol has returned a market for an exchange
\* and line 177 has not popped it since, the next call for that exchange
\* returns the same market without calling load_markets.
C14_SecondCallHitsCache ==
    [][ (Attempting /\ resolved[ExName] # None /\ tried' # tried) =>
            /\ resolver'.ex = ExName
            /\ ~resolver'.loaded
            /\ resolver'.symbol = resolved[ExName] ]_vars

\* A cycle after the one that discovered the market, the call hits the
\* cache.
C14_Witness ==
    /\ resolver # Nil
    /\ ~resolver.loaded
    /\ resolver.symbol = "BTC/USDT:USDT"
    /\ wakes > 0

\* The number of timeframes of the default TIMEFRAMES (line 17).
MaxTimeframes == 3

\* The fetch of the k-th timeframe has just raised RuntimeError, in the
\* wake cycle w.
ExhaustedAt(k, w) ==
    /\ printed # Nil /\ printed.type = "RuntimeError"
    /\ k <= Len(TIMEFRAMES)
    /\ before.tf = TIMEFRAMES[k]
    /\ wakes = w

\* The fetch of the j-th timeframe has begun, in the wake cycle w.
FetchingAt(j, w) ==
    /\ j <= Len(TIMEFRAMES)
    /\ before # Nil
    /\ before.tf = TIMEFRAMES[j]
    /\ wakes = w

\* C15: after the fetch of a timeframe raises RuntimeError, run() stands at
\* the next timeframe of the cycle, or at the sleep after the last; the
\* fetch of every later timeframe begins in the same wake cycle, and the
\* fetch of every timeframe begins in the next wake cycle (for the wake
\* cycles the model runs).
C15_ExhaustedGoesOn ==
    /\ [](\A k \in 1..MaxTimeframes, w \in 0..MaxWakes :
            ExhaustedAt(k, w) =>
                IF k < Len(TIMEFRAMES)
                THEN pc = "loop" /\ tf_i = k + 1
                ELSE pc = "sleep" /\ tf_i = 1)
    /\ \A j \in 1..MaxTimeframes, w \in 0..MaxWakes :
          (\E k \in 1..MaxTimeframes : k < j /\ ExhaustedAt(k, w))
              ~> FetchingAt(j, w)
    /\ \A j \in 1..MaxTimeframes, w \in 0..(MaxWakes - 1) :
          (\E k \in 1..MaxTimeframes : j <= Len(TIMEFRAMES) /\ ExhaustedAt(k, w))
              ~> FetchingAt(j, w + 1)

\* The fetch of the first timeframe has raised and the fetch of the last
\* one is under way in the same wake cycle.
C15_Witness ==
    /\ pc = "try"
    /\ before.tf = TIMEFRAMES[Len(TIMEFRAMES)]
    /\ Len(TIMEFRAMES) = MaxTimeframes
    /\ pinned_exchange[TIMEFRAMES[1]] = None
    /\ pinned_exchange[TIMEFRAMES[2]] # None
    /\ wakes = 0

\* C16: the RuntimeError of a fetch reports as attempted the candidate
\* order computed when the fetch began, each exchange once, every one of them
\* having raised once, and as last error the exception the last of them
\* raised, None when the order was empty.
C16_ExhaustedReport ==
    (printed # Nil /\ printed.type = "RuntimeError") =>
        /\ printed.tried = before.order
        /\ \A i, j \in 1..Len(printed.tried) :
              i # j => printed.tried[i] # printed.tried[j]
        /\ faults - before.faults = Len(before.order)
        /\ IF before.order = << >>
           THEN printed.last_err = Nil /\ thrown = Nil
           ELSE /\ thrown # Nil
                /\ thrown.ex = before.order[Len(before.order)]
                /\ printed.last_err = thrown.err

\* The three exchanges raise, the last one a BadSymbol.
C16_Witness ==
    /\ printed # Nil /\ printed.type = "RuntimeError"
    /\ printed.tried = <<"bybit", "kucoin", "okx">>
    /\ printed.last_err.type = "BadSymbol"

\* C17: a fetch that begins while the exchange pinned for its timeframe is
\* not in cooldown attempts that exchange first, whatever other exchanges
\* are eligible; if that attempt succeeds the fetch returns the pinned
\* exchange, leaves every pin as it was and sends nothing; and no step
\* changes a pin but a successful attempt of another exchange than the one
\* pinned, which pins that exchange for the timeframe fetched.
C17_PinHolds ==
    [][ LET pin == pinned_exchange[CurrentTf]
        IN  /\ (pc = "loop" /\ pc' = "try" /\ pin # None /\ now >= cooldown_until[pin])
                  => (order' # << >> /\ order'[1] = pin)
            /\ (Attempting /\ tried = << >> /\ ExName = pin /\ pc' = "eval")
                  => (ret'.ex = pin /\ pinned_exchange' = pinned_exchange /\ sent' = << >>)
            /\ pinned_exchange' # pinned_exchange
                  => /\ Attempting /\ pc' = "eval"
                     /\ ret'.ex # pin
                     /\ pinned_exchange' = [pinned_exchange EXCEPT ![CurrentTf] = ret'.ex]
      ]_vars

\* kucoin is pinned and answers again although bybit, which comes first in
\* EXCHANGES, has left its cooldown and is a candidate.
C17_Witness ==
    /\ pc = "eval"
    /\ before.pinned[before.tf] = "kucoin"
    /\ tried = <<"kucoin">>
    /\ ret.ex = "kucoin"
    /\ "bybit" \in DOMAIN marked_at
    /\ InSeq("bybit", order)
    /\ pinned_exchange[before.tf] = "kucoin"

\* The least element of a set of indices.
Least(S) == CHOOSE i \in S : \A j \in S : i <= j

\* C18: a call of find_perp_market_symbol that loads the catalog returns,
\* among the active swap markets of base BTC and quote USDT, the first one
\* flagged linear if one is, the first one otherwise; with no such market it
\* returns SYMBOL if the catalog lists that symbol; otherwise it raises
\* BadSymbol and the cache holds nothing for the exchange.
C18_ResolveChoice ==
    (resolver # Nil /\ resolver.listed) =>
        LET ms == resolver.markets
            swaps == {i \in 1..Len(ms) :
                        /\ ms[i].active
                        /\ ms[i].base = "BTC" /\ ms[i].quote = "USDT"
                        /\ ms[i].swap}
            linear == {i \in swaps : ms[i].linear}
        IN  IF swaps # {}
            THEN resolver.symbol = ms[Least(IF linear # {} THEN linear ELSE swaps)].symbol
            ELSE IF \E i \in 1..Len(ms) : ms[i].symbol = SYMBOL
                 THEN resolver.symbol = SYMBOL
                 ELSE /\ resolver.symbol = None
                      /\ JustFailed
                      /\ thrown.err.type = "BadSymbol"
                      /\ perp_symbol_cache[resolver.ex] = None
                      /\ resolved[resolver.ex] = None

\* The linear swap is chosen although an inverse one is listed before it.
C18_Witness ==
    /\ resolver # Nil /\ resolver.listed
    /\ resolver.markets = CatPerp
    /\ resolver.symbol = "BTC/USDT:USDT"

\* C19: from the moment the fetch of a timeframe begins until the next
\* fetch begins, the pin of every other timeframe is what it was when the
\* fetch began.
C19_OtherPinsUnchanged ==
    before # Nil =>
        \A tf \in TimeframeSet \ {before.tf} :
            pinned_exchange[tf] = before.pinned[tf]

\* The fetch of the second timeframe moves its pin to an exchange that
\* differs from the first timeframe's pin.
C19_Witness ==
    /\ pc = "eval"
    /\ before.tf = "15m"
    /\ pinned_exchange["15m"] # before.pinned["15m"]
    /\ pinned_exchange["5m"] # None
    /\ pinned_exchange["5m"] # pinned_exchange["15m"]

\* C20: every exchange has one cooldown-expiry, the time of its last
\* recoverable failure in the fetch of any timeframe plus COOLDOWN_SECONDS
\* (0 if it never failed so), and the fetch of a timeframe attempts no
\* exchange whose expiry was greater than the time when the fetch began,
\* pinned for the timeframe or not.
C20_CooldownShared ==
    /\ \A ex \in ExchangeSet :
          cooldown_until[ex] = IF ex \in DOMAIN marked_at
                               THEN marked_at[ex] + COOLDOWN_SECONDS
                               ELSE 0
    /\ before # Nil =>
          \A i \in 1..Len(tried) : before.now >= before.cooldown[tried[i]]

\* bybit is pinned for the second timeframe and has failed in the fetch of
\* the first one in this wake cycle: another exchange answers the second.
C20_Witness ==
    /\ pc = "eval"
    /\ before.tf = "15m"
    /\ before.pinned["15m"] = "bybit"
    /\ "bybit" \in DOMAIN marked_at
    /\ marked_at["bybit"] = before.now
    /\ before.cooldown["bybit"] > before.now
    /\ ~InSeq("bybit", tried)

====
